---- MODULE Spec2Model ----
(***************************************************************************)
(* The Parakeet transcription server (parakeet_server.py): a single        *)
(* sequential process that writes a start-up handshake to stdout, then     *)
(* reads newline-delimited JSON requests from stdin, loads and caches ASR  *)
(* models by name, and writes one JSON response line per request.          *)
(*                                                                         *)
(* Python strings are sequences of one-character strings, so that the      *)
(* substring test and the message prefixes are computed, not assumed.      *)
(* A JSON object written to stdout is a record whose DOMAIN is its keys.   *)
(* Floats are hundredths (0.95 is 95).                                     *)
(***************************************************************************)
EXTENDS Integers, Sequences, FiniteSets, TLC

VARIABLES pc, i, models, adjusted, cur, exc, trace, exitCode

vars == <<pc, i, models, adjusted, cur, exc, trace, exitCode>>

----------------------------------------------------------------------------
(* Bounds *)

\* Number of request lines the parent sends before end-of-input.
MaxReq == 2

\* Number of failing reads of stdin followed in a run.
MaxReadFaults == 2

----------------------------------------------------------------------------
(* Python values carried by a request *)

PyNone == [t |-> "none", s |-> <<>>]
PyStr(s) == [t |-> "str", s |-> s]
PyList(s) == [t |-> "list", s |-> s]

\* Python truthiness of a request field: `not x` is true of None, "" and [].
Truthy(v) == v.t # "none" /\ Len(v.s) > 0

\* A list cannot be a dict key: `x in self.models` raises TypeError for it.
Hashable(v) == v.t # "list"

\* `sub in s` for Python strings.
IsSubstring(sub, s) ==
    \E k \in 0..(Len(s) - Len(sub)) : SubSeq(s, k + 1, k + Len(sub)) = sub

StartsWith(s, prefix) ==
    Len(s) >= Len(prefix) /\ SubSeq(s, 1, Len(prefix)) = prefix

\* dict.get(key, default)
Get(d, key, default) == IF key \in DOMAIN d THEN d[key] ELSE default

EmptyDict == <<>>

----------------------------------------------------------------------------
(* The input alphabet: the request lines the parent may send *)

A1 == <<"a">>
A2 == <<"b">>
M1 == <<"t", "d", "t">>
MV3 == <<"x", "v", "3">>
EN == <<"e", "n">>
FR == <<"f", "r">>

\* A line of stdin: its text is blank (only the newline), not JSON, a JSON
\* value that is not an object, or a JSON object with the given members.
Line(kind, obj) == [kind |-> kind, obj |-> obj]

BlankLine == Line("blank", EmptyDict)
GarbageLine == Line("garbage", EmptyDict)
ArrayLine == Line("array", EmptyDict)
NullLine == Line("null", EmptyDict)
ObjectLine(obj) == Line("object", obj)

ValidLines ==
    { ObjectLine([audio_path |-> PyStr(A1), model_name |-> PyStr(M1)]),
      ObjectLine([audio_path |-> PyStr(A2), model_name |-> PyStr(M1),
                  language |-> PyStr(FR)]),
      ObjectLine([audio_path |-> PyStr(A1), model_name |-> PyStr(MV3)]),
      ObjectLine([audio_path |-> PyStr(A2), model_name |-> PyStr(MV3),
                  language |-> PyStr(FR)]),
      ObjectLine([audio_path |-> PyStr(A1), model_name |-> PyStr(MV3),
                  language |-> PyStr(EN)]) }

IncompleteLines ==
    { ObjectLine([model_name |-> PyStr(M1)]),
      ObjectLine([audio_path |-> PyStr(A1)]),
      ObjectLine([audio_path |-> PyStr(<<>>), model_name |-> PyStr(M1)]),
      ObjectLine([audio_path |-> PyStr(A1), model_name |-> PyNone]) }

UnhashableLines ==
    { ObjectLine([audio_path |-> PyStr(A1), model_name |-> PyList(M1)]) }

MalformedLines == { BlankLine, GarbageLine }

NonObjectLines == { ArrayLine, NullLine }

RequestLines ==
    ValidLines \cup IncompleteLines \cup UnhashableLines
        \cup MalformedLines \cup NonObjectLines

ModelNames == { PyStr(M1), PyStr(MV3) }

----------------------------------------------------------------------------
(* Exceptions *)

Exception(cls, msg) == [cls |-> cls, msg |-> msg]
NoExc == Exception("none", <<>>)

\* Variant: the except clauses catch BaseException.
IsExceptionAny(cls) == TRUE

\* The classes that derive from Exception; KeyboardInterrupt and SystemExit
\* derive from BaseException only.
IsException(cls) ==
    cls \in {"Exception", "JSONDecodeError", "AttributeError", "TypeError",
             "OSError"}

\* Variant: the JSONDecodeError clause never matches.
IsJSONDecodeErrorNever(cls) == FALSE

IsJSONDecodeError(cls) == cls = "JSONDecodeError"

----------------------------------------------------------------------------
(* Lines of stdout *)

NumReady == 5
DefaultConfidence == 95
NoConfidence == 0 - 1
\* What result.confidence may be: absent, or a number.
ResultConfidences == {NoConfidence, 80}

Status(s) == [status |-> s]
Loading(name) == [status |-> "loading", model |-> name.s]
Success(text, confidence) == [text |-> text, confidence |-> confidence]
Error(msg) == [error |-> msg]

MissingMsg == <<"Missing audio_path or model_name">>
InvalidJSONPrefix == <<"Invalid JSON: ">>
TranscriptionFailedPrefix == <<"Transcription failed: ">>

----------------------------------------------------------------------------
(* The log of what the process did to the outside world, in order *)

WriteEv(line) == [ev |-> "write", line |-> line]
ReadEv(line) == [ev |-> "read", line |-> line]
EofEv == [ev |-> "eof"]
LoadEv(name, h, ok) == [ev |-> "load", name |-> name, handle |-> h, ok |-> ok]
AdjustEv(h, ok) == [ev |-> "adjust", handle |-> h, ok |-> ok]
TranscribeEv(name, h, audio, adj, conf, ok) ==
    [ev |-> "transcribe", name |-> name, handle |-> h, audio |-> audio,
     adjusted |-> adj, conf |-> conf, ok |-> ok]
RaiseEv(where) == [ev |-> "raise", where |-> where]

Events(t, kind) == SelectSeq(t, LAMBDA e : e.ev = kind)

NoRequest == [audio_path |-> PyNone, model_name |-> PyNone, language |-> PyNone]

----------------------------------------------------------------------------
(* Pure steps of the request loop *)

\* json.loads(request_line.strip()): a blank line strips to "" and is no
\* more JSON than garbage is; an array and null parse, but to a list and to
\* None.
Loads(line) ==
    CASE line.kind = "blank" ->
            [exc |-> Exception("JSONDecodeError", <<"Expecting value">>),
             isDict |-> FALSE, type |-> "", value |-> EmptyDict]
      [] line.kind = "garbage" ->
            [exc |-> Exception("JSONDecodeError", <<"Expecting value">>),
             isDict |-> FALSE, type |-> "", value |-> EmptyDict]
      [] line.kind = "array" ->
            [exc |-> NoExc, isDict |-> FALSE, type |-> "list",
             value |-> EmptyDict]
      [] line.kind = "null" ->
            [exc |-> NoExc, isDict |-> FALSE, type |-> "NoneType",
             value |-> EmptyDict]
      [] OTHER ->
            [exc |-> NoExc, isDict |-> TRUE, type |-> "dict",
             value |-> line.obj]

\* The three request.get calls.
Fields(d) ==
    [audio_path |-> Get(d, "audio_path", PyNone),
     model_name |-> Get(d, "model_name", PyNone),
     language |-> Get(d, "language", PyStr(EN))]

\* Variant: only audio_path is validated.
IncompleteAudioOnly(req) == ~Truthy(req.audio_path)

\* `if not audio_path or not model_name`
Incomplete(req) == ~Truthy(req.audio_path) \/ ~Truthy(req.model_name)

\* Variant: the cache is never consulted.
CacheMissAlways(ms, name) == TRUE

\* `if model_name not in self.models`
CacheMiss(ms, name) == name \notin DOMAIN ms

\* Variant: storing a handle evicts every other entry.
StoreEvicting(ms, name, h) == [n \in {name} |-> h]

\* self.models[model_name] = handle
Store(ms, name, h) ==
    [n \in DOMAIN ms \cup {name} |-> IF n = name THEN h ELSE ms[n]]

\* Variant: the language is not looked at.
NeedsAdjustAnyLanguage(name, language) == IsSubstring(<<"v", "3">>, name.s)

\* `if 'v3' in model_name and language != 'en'`
NeedsAdjust(name, language) ==
    IsSubstring(<<"v", "3">>, name.s) /\ language # PyStr(EN)

\* result.text of the transcription of an audio file.
TextOf(audio) == <<"text of ">> \o audio.s

\* Variant: the confidence is passed on as found.
ConfidenceRaw(c) == c

\* `result.confidence if hasattr(result, 'confidence') else 0.95`
Confidence(c) == IF c = NoConfidence THEN DefaultConfidence ELSE c

\* Variant: transcribe lets the exception through as it is.
TranscribeExceptBare(e) == e

\* transcribe's `except Exception as e: raise Exception("Transcription failed: ...")`
TranscribeExcept(e) ==
    IF IsException(e.cls)
    THEN Exception("Exception", TranscriptionFailedPrefix \o e.msg)
    ELSE e

\* Variant: run has only the JSONDecodeError clause.
RunExceptJSONOnly(e) ==
    IF IsJSONDecodeError(e.cls)
    THEN [caught |-> TRUE, line |-> Error(InvalidJSONPrefix \o e.msg)]
    ELSE [caught |-> FALSE, line |-> Error(<<>>)]

\* run's two except clauses: the line they write, or the exception escaping.
RunExcept(e) ==
    IF IsJSONDecodeError(e.cls)
    THEN [caught |-> TRUE, line |-> Error(InvalidJSONPrefix \o e.msg)]
    ELSE IF IsException(e.cls)
    THEN [caught |-> TRUE, line |-> Error(e.msg)]
    ELSE [caught |-> FALSE, line |-> Error(<<>>)]

\* A fresh object identity for each model the load primitive returns.
NewHandle == Len(SelectSeq(trace, LAMBDA e : e.ev = "load" /\ e.ok)) + 1

NotExited == 0 - 1

\* No handle: what a failed load returns.
NoHandle == 0

----------------------------------------------------------------------------
(* State changes shared by the steps of the loop *)

\* Variant: the response is written twice.
RunWriteTwice(t, line) ==
    /\ trace' = t \o <<WriteEv(line), WriteEv(line)>>
    /\ pc' = "await"
    /\ cur' = NoRequest
    /\ exc' = NoExc

\* sys.stdout.write(json.dumps(line) + '\n'); flush; back to the top of the loop
RunWrite(t, line) ==
    /\ trace' = Append(t, WriteEv(line))
    /\ pc' = "await"
    /\ cur' = NoRequest
    /\ exc' = NoExc

\* Variant: the except clauses swallow the exception without answering.
RunRaiseSilent(t, e) ==
    /\ trace' = t
    /\ pc' = "await"
    /\ cur' = NoRequest
    /\ exc' = NoExc

\* An exception raised inside run's try block.
RunRaise(t, e) ==
    IF RunExcept(e).caught
    THEN RunWrite(t, RunExcept(e).line)
    ELSE /\ trace' = t
         /\ pc' = "main_except"
         /\ cur' = NoRequest
         /\ exc' = e

\* transcribe, after load_model has returned the handle.
AfterLoad(t, req) ==
    /\ trace' = t
    /\ pc' = IF NeedsAdjust(req.model_name, req.language)
             THEN "adjust" ELSE "transcribe"
    /\ cur' = req
    /\ exc' = NoExc

\* Variant: load_model calls from_pretrained without announcing it.
EnterTranscribeQuiet(t, req) ==
    IF ~Hashable(req.model_name)
    THEN RunRaise(t, TranscribeExcept(
                        Exception("TypeError", <<"unhashable type: 'list'">>)))
    ELSE IF CacheMiss(models, req.model_name)
    THEN /\ trace' = t
         /\ pc' = "load"
         /\ cur' = req
         /\ exc' = NoExc
    ELSE AfterLoad(t, req)

\* Variant: load_model announces a model name only the first time it loads it.
EnterTranscribeAnnounceOnce(t, req) ==
    IF ~Hashable(req.model_name)
    THEN RunRaise(t, TranscribeExcept(
                        Exception("TypeError", <<"unhashable type: 'list'">>)))
    ELSE IF CacheMiss(models, req.model_name)
    THEN /\ trace' = IF \E p \in 1..Len(t) :
                            t[p] = WriteEv(Loading(req.model_name))
                     THEN t
                     ELSE Append(t, WriteEv(Loading(req.model_name)))
         /\ pc' = "load"
         /\ cur' = req
         /\ exc' = NoExc
    ELSE AfterLoad(t, req)

\* transcribe up to its first external call: load_model's cache lookup and
\* the 'loading' status it prints before calling from_pretrained.
EnterTranscribe(t, req) ==
    IF ~Hashable(req.model_name)
    THEN RunRaise(t, TranscribeExcept(
                        Exception("TypeError", <<"unhashable type: 'list'">>)))
    ELSE IF CacheMiss(models, req.model_name)
    THEN /\ trace' = Append(t, WriteEv(Loading(req.model_name)))
         /\ pc' = "load"
         /\ cur' = req
         /\ exc' = NoExc
    ELSE AfterLoad(t, req)

\* Variant: a blank line is skipped without an answer.
DispatchSkipsBlank(t, line) ==
    IF line.kind = "blank"
    THEN /\ trace' = t
         /\ pc' = "await"
         /\ cur' = NoRequest
         /\ exc' = NoExc
    ELSE IF Loads(line).exc # NoExc
    THEN RunRaise(t, Loads(line).exc)
    ELSE IF ~Loads(line).isDict
    THEN RunRaise(t, Exception("AttributeError",
                               <<"'", Loads(line).type,
                                 "' object has no attribute 'get'">>))
    ELSE IF Incomplete(Fields(Loads(line).value))
    THEN RunWrite(t, Error(MissingMsg))
    ELSE EnterTranscribe(t, Fields(Loads(line).value))

\* One iteration of `while True` from the line read to the first external
\* call or to the response.
Dispatch(t, line) ==
    IF Loads(line).exc # NoExc
    THEN RunRaise(t, Loads(line).exc)
    ELSE IF ~Loads(line).isDict
    THEN RunRaise(t, Exception("AttributeError",
                               <<"'", Loads(line).type,
                                 "' object has no attribute 'get'">>))
    ELSE IF Incomplete(Fields(Loads(line).value))
    THEN RunWrite(t, Error(MissingMsg))
    ELSE EnterTranscribe(t, Fields(Loads(line).value))

----------------------------------------------------------------------------
(* The process *)

Init ==
    /\ pc = "start"
    /\ i = 0
    /\ models = EmptyDict
    /\ adjusted = {}
    /\ cur = NoRequest
    /\ exc = NoExc
    /\ trace = <<>>
    /\ exitCode = NotExited

\* ParakeetServer.__init__
Construct ==
    /\ pc = "start"
    /\ models' = EmptyDict
    /\ trace' = Append(trace, WriteEv(Status("starting")))
    /\ pc' = "ready"
    /\ UNCHANGED <<i, adjusted, cur, exc, exitCode>>

\* Variant: the loop is entered after the first 'ready'.
SendReadyOnce ==
    /\ pc = "ready"
    /\ trace' = Append(trace, WriteEv(Status("ready")))
    /\ i' = i + 1
    /\ pc' = "await"
    /\ UNCHANGED <<models, adjusted, cur, exc, exitCode>>

\* run: one turn of `for _ in range(5)`
SendReady ==
    /\ pc = "ready"
    /\ i < NumReady
    /\ trace' = Append(trace, WriteEv(Status("ready")))
    /\ i' = i + 1
    /\ pc' = IF i + 1 = NumReady THEN "await" ELSE "ready"
    /\ UNCHANGED <<models, adjusted, cur, exc, exitCode>>

NumReads == Len(Events(trace, "read"))

\* Variant: the next line is read while a transcription is still running.
ReadLineEager ==
    /\ pc \in {"await", "transcribe"}
    /\ NumReads < MaxReq
    /\ \E line \in RequestLines : Dispatch(Append(trace, ReadEv(line)), line)
    /\ UNCHANGED <<i, models, adjusted, exitCode>>

\* run: readline returns a line
ReadLine ==
    /\ pc = "await"
    /\ NumReads < MaxReq
    /\ \E line \in RequestLines : Dispatch(Append(trace, ReadEv(line)), line)
    /\ UNCHANGED <<i, models, adjusted, exitCode>>

\* Variant: the empty read does not break out of the loop.
ReadEOFContinues ==
    /\ pc = "await"
    /\ pc' = "await"
    /\ UNCHANGED <<i, models, adjusted, cur, exc, trace, exitCode>>

\* run: readline returns '' at end of input; break, run returns, the
\* interpreter exits
ReadEOF ==
    /\ pc = "await"
    /\ trace' = Append(trace, EofEv)
    /\ pc' = "exited"
    /\ exitCode' = 0
    /\ UNCHANGED <<i, models, adjusted, cur, exc>>

\* load_model: from_pretrained returns a model
LoadOk ==
    /\ pc = "load"
    /\ models' = Store(models, cur.model_name, NewHandle)
    /\ AfterLoad(Append(trace, LoadEv(cur.model_name, NewHandle, TRUE)), cur)
    /\ UNCHANGED <<i, adjusted, exitCode>>

\* Variant: the cache entry is made before from_pretrained is called, and
\* stays when it raises.
LoadFailPoisons ==
    /\ pc = "load"
    /\ models' = Store(models, cur.model_name, NoHandle)
    /\ RunRaise(Append(trace, LoadEv(cur.model_name, NoHandle, FALSE)),
                TranscribeExcept(Exception("Exception", <<"load error">>)))
    /\ UNCHANGED <<i, adjusted, exitCode>>

\* load_model: from_pretrained raises
LoadFail ==
    /\ pc = "load"
    /\ RunRaise(Append(trace, LoadEv(cur.model_name, NoHandle, FALSE)),
                TranscribeExcept(Exception("Exception", <<"load error">>)))
    /\ UNCHANGED <<i, models, adjusted, exitCode>>

\* transcribe: change_decoding_strategy returns
AdjustOk ==
    /\ pc = "adjust"
    /\ adjusted' = adjusted \cup {models[cur.model_name]}
    /\ trace' = Append(trace, AdjustEv(models[cur.model_name], TRUE))
    /\ pc' = "transcribe"
    /\ UNCHANGED <<i, models, cur, exc, exitCode>>

\* transcribe: change_decoding_strategy raises
AdjustFail ==
    /\ pc = "adjust"
    /\ RunRaise(Append(trace, AdjustEv(models[cur.model_name], FALSE)),
                TranscribeExcept(Exception("Exception", <<"decoding error">>)))
    /\ UNCHANGED <<i, models, adjusted, exitCode>>

\* transcribe: asr_model.transcribe returns; the response is written
TranscribeOk ==
    /\ pc = "transcribe"
    /\ \E c \in ResultConfidences :
          RunWrite(Append(trace,
                          TranscribeEv(cur.model_name, models[cur.model_name],
                                       cur.audio_path,
                                       models[cur.model_name] \in adjusted,
                                       c, TRUE)),
                   Success(TextOf(cur.audio_path), Confidence(c)))
    /\ UNCHANGED <<i, models, adjusted, exitCode>>

\* transcribe: asr_model.transcribe raises
TranscribeFail ==
    /\ pc = "transcribe"
    /\ RunRaise(Append(trace,
                       TranscribeEv(cur.model_name, models[cur.model_name],
                                    cur.audio_path,
                                    models[cur.model_name] \in adjusted,
                                    NoConfidence, FALSE)),
                TranscribeExcept(Exception("Exception", <<"audio error">>)))
    /\ UNCHANGED <<i, models, adjusted, exitCode>>

Next ==
    \/ Construct
    \/ SendReady
    \/ ReadLine
    \/ ReadEOF
    \/ LoadOk
    \/ LoadFail
    \/ AdjustOk
    \/ AdjustFail
    \/ TranscribeOk
    \/ TranscribeFail

Spec == Init /\ [][Next]_vars

\* The process keeps running: readline returns (a line, or '' at end of
\* input) and every call of from_pretrained, change_decoding_strategy and
\* transcribe returns or raises.
SpecLive == Init /\ [][Next]_vars /\ WF_vars(Next)

----------------------------------------------------------------------------
(* Fatal faults: the constructor raising, and the handlers of __main__ *)

\* ParakeetServer.__init__ raises before it has written anything to stdout:
\* the process was started with stderr closed, sys.stderr is None and the
\* first sys.stderr.write raises AttributeError.
ConstructFail ==
    /\ pc = "start"
    /\ trace' = Append(trace, RaiseEv("__init__"))
    /\ exc' = Exception("AttributeError",
                        <<"'NoneType' object has no attribute 'write'">>)
    /\ pc' = "main_except"
    /\ UNCHANGED <<i, models, adjusted, cur, exitCode>>

\* The except clauses of __main__: the line printed, if any, and the exit
\* status of the interpreter once the clause has run (0), or after an
\* uncaught exception (1).
MainExceptOutcome(e) ==
    IF e.cls = "KeyboardInterrupt"
    THEN [lines |-> <<WriteEv(Status("shutting_down"))>>, status |-> 0]
    ELSE IF IsException(e.cls)
    THEN [lines |-> <<WriteEv(Error(e.msg))>>, status |-> 0]
    ELSE [lines |-> <<>>, status |-> 1]

MainExcept ==
    /\ pc = "main_except"
    /\ trace' = trace \o MainExceptOutcome(exc).lines
    /\ exitCode' = MainExceptOutcome(exc).status
    /\ pc' = "exited"
    /\ exc' = NoExc
    /\ UNCHANGED <<i, models, adjusted, cur>>

NextFatal ==
    \/ Next
    \/ ConstructFail
    \/ MainExcept

SpecFatal == Init /\ [][NextFatal]_vars

----------------------------------------------------------------------------
(* The interrupt signal *)

KeyboardInterrupt == Exception("KeyboardInterrupt", <<>>)

\* SIGINT arrives: Python raises KeyboardInterrupt in the main thread at the
\* point the process has reached. In __init__ and in the 'ready' loop no try
\* block of run is active; at readline run's except clauses are tried; in
\* load_model, change_decoding_strategy and transcribe the except clause of
\* transcribe is tried first, then those of run.
Interrupt ==
    /\ pc \in {"start", "ready", "await", "load", "adjust", "transcribe"}
    /\ IF pc \in {"start", "ready"}
       THEN /\ trace' = Append(trace, RaiseEv("interrupt"))
            /\ pc' = "main_except"
            /\ exc' = KeyboardInterrupt
            /\ cur' = NoRequest
       ELSE IF pc = "await"
       THEN RunRaise(Append(trace, RaiseEv("interrupt")), KeyboardInterrupt)
       ELSE RunRaise(Append(trace, RaiseEv("interrupt")),
                     TranscribeExcept(KeyboardInterrupt))
    /\ UNCHANGED <<i, models, adjusted, exitCode>>

NextInterrupt ==
    \/ Next
    \/ Interrupt
    \/ MainExcept

SpecInterrupt == Init /\ [][NextInterrupt]_vars

----------------------------------------------------------------------------
(* Stream faults inside the loop *)

NumReadFaults == Len(SelectSeq(trace, LAMBDA e : e = RaiseEv("readline")))

\* run: sys.stdin.readline() raises (stdin is closed or unreadable: with
\* stdin closed at start-up sys.stdin is None and every call raises
\* AttributeError). The call is inside the try block, so run's except
\* clauses handle it like any other exception.
ReadFail ==
    /\ pc = "await"
    /\ NumReadFaults < MaxReadFaults
    /\ RunRaise(Append(trace, RaiseEv("readline")),
                Exception("AttributeError",
                          <<"'NoneType' object has no attribute 'readline'">>))
    /\ UNCHANGED <<i, models, adjusted, exitCode>>

\* run: transcribe has returned and stdout is gone (the parent closed the
\* pipe): the write of the response raises BrokenPipeError, `except
\* Exception` catches it and its own write raises again, which leaves run;
\* the print in `except Exception` of __main__ raises too, so the
\* interpreter ends with a traceback and status 1, nothing written.
WriteFail ==
    /\ pc = "transcribe"
    /\ trace' = trace \o
                 <<TranscribeEv(cur.model_name, models[cur.model_name],
                                cur.audio_path,
                                models[cur.model_name] \in adjusted,
                                NoConfidence, TRUE),
                   RaiseEv("write")>>
    /\ pc' = "exited"
    /\ exitCode' = 1
    /\ cur' = NoRequest
    /\ exc' = NoExc
    /\ UNCHANGED <<i, models, adjusted>>

NextStream ==
    \/ Next
    \/ ReadFail
    \/ WriteFail

SpecStream == Init /\ [][NextStream]_vars

----------------------------------------------------------------------------
(* Reading the log *)

IsRead(e) == e.ev = "read"
IsInput(e) == e.ev \in {"read", "eof"}
IsWrite(e) == e.ev = "write"
IsSuccessLine(l) == DOMAIN l = {"text", "confidence"}
IsErrorLine(l) == DOMAIN l = {"error"}
IsResponseLine(l) == IsSuccessLine(l) \/ IsErrorLine(l)
IsResponseEv(e) == IsWrite(e) /\ IsResponseLine(e.line)
IsSuccessEv(e) == IsWrite(e) /\ IsSuccessLine(e.line)
IsErrorEv(e) == IsWrite(e) /\ IsErrorLine(e.line)
IsStatusEv(e, st) ==
    IsWrite(e) /\ DOMAIN e.line = {"status"} /\ e.line.status = st
IsLoadingEv(e, name) ==
    /\ IsWrite(e)
    /\ DOMAIN e.line = {"status", "model"}
    /\ e.line.status = "loading"
    /\ e.line.model = name.s
IsLoadOf(e, name) == e.ev = "load" /\ e.name = name
IsExternalFailure(e) == e.ev \in {"load", "adjust", "transcribe"} /\ ~e.ok
IsReadOf(e, lines) == IsRead(e) /\ e.line \in lines

Pos == 1..Len(trace)

Min(S) == CHOOSE m \in S : \A n \in S : m <= n

\* The position of the first response written after position r, 0 if none.
NextResp(r) ==
    LET S == {q \in Pos : q > r /\ IsResponseEv(trace[q])}
    IN IF S = {} THEN 0 ELSE Min(S)

\* The position of the first read or end-of-input after position r, one past
\* the end of the log if there is none yet.
NextInput(r) ==
    LET S == {q \in Pos : q > r /\ IsInput(trace[q])}
    IN IF S = {} THEN Len(trace) + 1 ELSE Min(S)

\* What a request line is owed: the kind of response that answers it.
Answers(resp, line) ==
    CASE line \in MalformedLines ->
            IsErrorLine(resp) /\ StartsWith(resp.error, InvalidJSONPrefix)
      [] line \in NonObjectLines ->
            IsErrorLine(resp)
      [] line \in IncompleteLines ->
            IsErrorLine(resp) /\ resp.error = MissingMsg
      [] OTHER ->
            \/ IsSuccessLine(resp) /\ resp.text = TextOf(line.obj.audio_path)
            \/ IsErrorLine(resp)
                   /\ StartsWith(resp.error, TranscriptionFailedPrefix)

\* The reads and the responses, in the order they happened.
Exchange == SelectSeq(trace, LAMBDA e : IsRead(e) \/ IsResponseEv(e))

----------------------------------------------------------------------------
(* Claims *)

\* C1: the reads and the response lines alternate, read first, each response
\* answering the read just before it; whenever the server is back at the top
\* of the loop or has exited on end-of-input, every line read has its
\* response: one response per request line, none dropped, duplicated,
\* batched or reordered.
C1_OneResponsePerRequestInOrder ==
    LET x == Exchange
    IN /\ \A k \in 1..Len(x) :
             IF k % 2 = 1
             THEN IsRead(x[k])
             ELSE /\ IsResponseEv(x[k])
                  /\ Answers(x[k].line, x[k - 1].line)
       /\ pc \in {"await", "exited"} => Len(x) = 2 * NumReads

C1_Witness ==
    /\ pc = "exited"
    /\ NumReads >= 2
    /\ \E p \in Pos : IsSuccessEv(trace[p])
    /\ \E p \in Pos : IsErrorEv(trace[p])

\* C2: after a load of a name has succeeded, the log holds no further load
\* call and no further 'loading' line for that name; and when two requests
\* for a name have succeeded and no load of it has failed, there was exactly
\* one load call and exactly one 'loading' line for it.
C2_LoadedOnce ==
    \A name \in ModelNames :
        /\ \A p \in Pos :
              (IsLoadOf(trace[p], name) /\ trace[p].ok) =>
                  \A q \in Pos :
                      q > p => /\ ~IsLoadOf(trace[q], name)
                               /\ ~IsLoadingEv(trace[q], name)
        /\ ( /\ Len(SelectSeq(trace, LAMBDA e : e.ev = "transcribe"
                                        /\ e.name = name /\ e.ok)) >= 2
             /\ \A p \in Pos : IsLoadOf(trace[p], name) => trace[p].ok )
           => /\ Len(SelectSeq(trace, LAMBDA e : IsLoadOf(e, name))) = 1
              /\ Len(SelectSeq(trace, LAMBDA e : IsLoadingEv(e, name))) = 1

C2_Witness ==
    /\ Len(SelectSeq(trace, LAMBDA e : e.ev = "transcribe"
                              /\ e.name = PyStr(M1) /\ e.ok)) >= 2
    /\ Len(SelectSeq(trace, LAMBDA e : IsLoadOf(e, PyStr(M1)))) = 1

\* The last load call for the name before position r exists and failed.
LastLoadFailed(r, name) ==
    \E p \in Pos :
        /\ p < r
        /\ IsLoadOf(trace[p], name)
        /\ ~trace[p].ok
        /\ \A q \in Pos : (p < q /\ q < r) => ~IsLoadOf(trace[q], name)

\* C3: while the last load call for a name is a failed one, the name is not
\* a key of the cache; and a complete request for that name read then is
\* handled by printing 'loading' and calling the load primitive again.
C3_FailedLoadNotCached ==
    \A name \in ModelNames :
        /\ LastLoadFailed(Len(trace) + 1, name) => name \notin DOMAIN models
        /\ \A r \in Pos :
              ( /\ IsReadOf(trace[r], ValidLines)
                /\ trace[r].line.obj.model_name = name
                /\ LastLoadFailed(r, name) )
              => /\ r + 1 <= Len(trace)
                 /\ IsLoadingEv(trace[r + 1], name)
                 /\ IF r + 2 <= Len(trace)
                    THEN IsLoadOf(trace[r + 2], name)
                    ELSE pc = "load" /\ cur.model_name = name

C3_Witness ==
    \E p, q \in Pos :
        /\ p < q
        /\ IsLoadOf(trace[p], PyStr(M1)) /\ ~trace[p].ok
        /\ IsLoadOf(trace[q], PyStr(M1)) /\ trace[q].ok
        /\ PyStr(M1) \in DOMAIN models

\* C4: a request object without a usable audio_path or model_name is
\* answered by the very next event, the line {"error": "Missing audio_path
\* or model_name"}; nothing is loaded, transcribed or reported as loading
\* for it, and the server is back at reading input.
C4_IncompleteRequestRejected ==
    \A r \in Pos :
        IsReadOf(trace[r], IncompleteLines) =>
            /\ r + 1 <= Len(trace)
            /\ IsErrorEv(trace[r + 1])
            /\ trace[r + 1].line.error = MissingMsg
            /\ IF r + 2 <= Len(trace)
               THEN IsInput(trace[r + 2])
               ELSE pc = "await"

C4_Witness ==
    \E r \in Pos :
        /\ IsReadOf(trace[r], IncompleteLines)
        /\ r + 2 <= Len(trace)
        /\ IsReadOf(trace[r + 2], ValidLines)

\* C5: a line that is not JSON is answered by the very next event, an error
\* line whose message starts with "Invalid JSON: "; the process has not
\* exited and is back at reading input; and every complete request read
\* after it is answered as such a request is owed.
C5_MalformedLineAnswered ==
    \A r \in Pos :
        IsReadOf(trace[r], MalformedLines) =>
            /\ r + 1 <= Len(trace)
            /\ IsErrorEv(trace[r + 1])
            /\ StartsWith(trace[r + 1].line.error, InvalidJSONPrefix)
            /\ IF r + 2 <= Len(trace)
               THEN IsInput(trace[r + 2])
               ELSE pc = "await" /\ exitCode = NotExited
            /\ \A r2 \in Pos :
                  (r2 > r /\ IsReadOf(trace[r2], ValidLines)
                      /\ NextResp(r2) # 0)
                  => Answers(trace[NextResp(r2)].line, trace[r2].line)

C5_Witness ==
    \E r, q \in Pos :
        /\ IsReadOf(trace[r], MalformedLines)
        /\ q > r
        /\ IsSuccessEv(trace[q])

\* C6: a load, a decoding adjustment or a transcription that raises is
\* answered by the very next event, one error line, and the server is back
\* at reading input; no exception ever leaves the loop, which ends only on
\* end-of-input.
C6_InvokingFaultContained ==
    /\ pc # "main_except"
    /\ exc = NoExc
    /\ pc = "exited" => (exitCode = 0 /\ trace[Len(trace)] = EofEv)
    /\ \A p \in Pos :
          IsExternalFailure(trace[p]) =>
              /\ p + 1 <= Len(trace)
              /\ IsErrorEv(trace[p + 1])
              /\ IF p + 2 <= Len(trace)
                 THEN IsInput(trace[p + 2])
                 ELSE pc = "await"

C6_Witness ==
    \E p, q \in Pos :
        /\ IsExternalFailure(trace[p])
        /\ q > p + 1
        /\ IsSuccessEv(trace[q])

\* The handshake: 'starting', then 'ready' NumReady times.
Handshake ==
    [k \in 1..(NumReady + 1) |-> IF k = 1 THEN "starting" ELSE "ready"]

\* C7: the log begins with the writes of 'starting' and of five 'ready',
\* so no read of stdin comes before them, and nothing after them is a
\* 'starting' or a 'ready' line.
C7_HandshakeBeforeFirstRead ==
    \A k \in Pos :
        IF k <= Len(Handshake)
        THEN IsStatusEv(trace[k], Handshake[k])
        ELSE ~IsStatusEv(trace[k], "starting") /\ ~IsStatusEv(trace[k], "ready")

C7_Witness ==
    /\ NumReads >= 2
    /\ \E p \in Pos : IsLoadingEv(trace[p], PyStr(M1))
    /\ pc = "exited"

\* C8: every handle the load primitive has ever returned for a name is the
\* handle the cache holds for that name now: a name has one handle for the
\* life of the process, and an entry is never evicted or replaced.
C8_CacheOnlyGrows ==
    /\ \A p \in Pos :
          (trace[p].ev = "load" /\ trace[p].ok) =>
              /\ trace[p].name \in DOMAIN models
              /\ models[trace[p].name] = trace[p].handle
    /\ \A name \in DOMAIN models :
          \E p \in Pos : IsLoadOf(trace[p], name) /\ trace[p].ok

C8_Witness ==
    /\ Cardinality(DOMAIN models) = 2
    /\ \E p, q \in Pos :
          /\ trace[p].ev = "load" /\ trace[p].ok
          /\ q > p
          /\ IsExternalFailure(trace[q])
    /\ pc = "exited"

\* The events between the read at position r and the next read or
\* end-of-input.
Segment(r) == SubSeq(trace, r + 1, NextInput(r) - 1)

\* The request read at position r has been handled to the end.
Handled(r) == NextInput(r) <= Len(trace) \/ pc = "await"

\* C9 as stated: between one read and the next the server writes exactly
\* one line to stdout, whatever the request.
C9_ExactlyOneLinePerRequest ==
    \A r \in Pos :
        (IsRead(trace[r]) /\ Handled(r)) =>
            Len(SelectSeq(Segment(r), IsWrite)) = 1

\* C9, amended: between one read and the next the server writes exactly one
\* response line, the last thing it does for the request, and before it one
\* 'loading' status line exactly when the load primitive is called for the
\* request, and nothing else.
C9_OneResponsePlusLoadingStatus ==
    \A r \in Pos :
        (IsRead(trace[r]) /\ Handled(r)) =>
            LET seg == Segment(r)
                loads == Len(SelectSeq(seg, LAMBDA e : e.ev = "load"))
            IN /\ Len(seg) >= 1
               /\ IsResponseEv(seg[Len(seg)])
               /\ Len(SelectSeq(seg, IsResponseEv)) = 1
               /\ loads <= 1
               /\ Len(SelectSeq(seg, IsWrite)) = 1 + loads
               /\ loads = 1 =>
                     /\ Len(seg) >= 3
                     /\ seg[2].ev = "load"
                     /\ IsLoadingEv(seg[1], seg[2].name)

C9_Witness ==
    \E r, r2 \in Pos :
        /\ IsRead(trace[r]) /\ Handled(r)
        /\ IsRead(trace[r2]) /\ Handled(r2)
        /\ Len(SelectSeq(Segment(r), IsWrite)) = 2
        /\ Len(SelectSeq(Segment(r2), IsWrite)) = 1

\* C10: when the constructor raises, the process writes one {"error": ...}
\* line and exits with a non-zero status.
C10_ConstructionFaultExitsNonZero ==
    (pc = "exited" /\ \E p \in Pos : trace[p] = RaiseEv("__init__")) =>
        /\ IsErrorEv(trace[Len(trace)])
        /\ Len(SelectSeq(trace, IsWrite)) = 1
        /\ exitCode # 0

\* C11: once an interrupt has arrived, whatever the process was doing, the
\* only thing that follows it in the log is the write of
\* {"status": "shutting_down"}, after which the process has exited: no
\* further read, no response, no other line.
C11_InterruptShutsDown ==
    \A p \in Pos :
        trace[p] = RaiseEv("interrupt") =>
            \/ /\ p = Len(trace)
               /\ pc = "main_except"
               /\ exc = KeyboardInterrupt
            \/ /\ p + 1 = Len(trace)
               /\ IsStatusEv(trace[p + 1], "shutting_down")
               /\ pc = "exited"
               /\ exitCode # NotExited

\* An interrupt during a load, after a request was served, has shut the
\* process down.
C11_Witness ==
    /\ pc = "exited"
    /\ Len(trace) >= 3
    /\ IsStatusEv(trace[Len(trace)], "shutting_down")
    /\ trace[Len(trace) - 1] = RaiseEv("interrupt")
    /\ \E name \in ModelNames : IsLoadingEv(trace[Len(trace) - 2], name)
    /\ \E p \in Pos : IsSuccessEv(trace[p])

\* C12: once a read of stdin or a write to stdout has failed inside the
\* loop, the loop iterates no more: the exception is on its way out of run
\* or the process has exited, and no response line follows the fault.
C12_StreamErrorLeavesLoop ==
    \A p \in Pos :
        (trace[p] = RaiseEv("readline") \/ trace[p] = RaiseEv("write")) =>
            /\ pc \in {"main_except", "exited"}
            /\ \A q \in Pos : q > p => ~IsResponseEv(trace[q])

\* The loop has ended on end-of-input: the empty read is the last event and
\* the only one of its kind, it wrote nothing, every line read before it has
\* its response, and the exit status is 0.
Closed ==
    /\ Len(trace) >= 1
    /\ trace[Len(trace)] = EofEv
    /\ Len(Events(trace, "eof")) = 1
    /\ Len(SelectSeq(trace, IsResponseEv)) = NumReads
    /\ exitCode = 0

\* C13: with every external call returning or raising, the process
\* eventually exits, and when it has exited it is in the Closed state.
C13_EndOfInputCloses ==
    /\ <>(pc = "exited")
    /\ [](pc = "exited" => Closed)

C13_Witness ==
    /\ pc = "exited"
    /\ Closed
    /\ NumReads >= 2
    /\ IsResponseEv(trace[Len(trace) - 1])
    /\ \E p \in Pos : trace[p].ev = "load" /\ trace[p].ok

\* C14: while from_pretrained is running, the last thing the process did was
\* to write the 'loading' line for the name being loaded; so every load call
\* in the log comes right after the 'loading' line of its name and before
\* the response of its request.
C14_LoadingBeforeLoad ==
    /\ pc = "load" =>
          /\ Len(trace) >= 1
          /\ IsLoadingEv(trace[Len(trace)], cur.model_name)
    /\ \A p \in Pos :
          trace[p].ev = "load" =>
              /\ p > 1
              /\ IsLoadingEv(trace[p - 1], trace[p].name)
              /\ \A q \in Pos :
                    (q < p /\ IsResponseEv(trace[q])) => NextInput(q) < p

C14_Witness ==
    \E p \in Pos :
        /\ trace[p].ev = "load"
        /\ trace[p].ok
        /\ NextResp(p) # 0
        /\ IsSuccessEv(trace[NextResp(p)])

\* The request lines that name the multilingual model and carry a language
\* other than 'en'.
AdjustLines ==
    {l \in ValidLines :
        /\ l.obj.model_name = PyStr(MV3)
        /\ "language" \in DOMAIN l.obj
        /\ l.obj.language # PyStr(EN)}

\* C15: change_decoding_strategy is called for a request exactly when the
\* request names the 'v3' model with a language other than 'en' (none given
\* counts as 'en') and its model is loaded, at most once and right before
\* the transcription call; and a handle is adjusted at a transcription
\* exactly when some earlier request adjusted it: the setting is never
\* rolled back.
C15_LanguageAdjustment ==
    /\ \A r \in Pos :
          IsRead(trace[r]) =>
              LET seg == Segment(r)
                  adj == SelectSeq(seg, LAMBDA e : e.ev = "adjust")
              IN /\ Len(adj) <= 1
                 /\ trace[r].line \notin AdjustLines =>
                       Len(adj) = 0 /\ (NextInput(r) > Len(trace) => pc # "adjust")
                 /\ trace[r].line \in AdjustLines =>
                       \A k \in 1..Len(seg) :
                           seg[k].ev = "transcribe" =>
                               /\ k > 1
                               /\ seg[k - 1].ev = "adjust"
                               /\ seg[k - 1].ok
                               /\ seg[k - 1].handle = seg[k].handle
                 /\ (trace[r].line \in AdjustLines /\ NextInput(r) > Len(trace)
                        /\ pc = "transcribe") =>
                       /\ trace[Len(trace)].ev = "adjust"
                       /\ trace[Len(trace)].ok
    /\ \A q \in Pos :
          trace[q].ev = "transcribe" =>
              (trace[q].adjusted <=>
                  \E p \in Pos :
                      /\ p < q
                      /\ trace[p].ev = "adjust"
                      /\ trace[p].ok
                      /\ trace[p].handle = trace[q].handle)
    /\ \A h \in adjusted :
          \E p \in Pos :
              trace[p].ev = "adjust" /\ trace[p].ok /\ trace[p].handle = h

\* A request in 'en' is transcribed on a handle that an earlier request
\* adjusted.
C15_Witness ==
    \E q \in Pos :
        /\ q > 1
        /\ trace[q].ev = "transcribe"
        /\ trace[q].adjusted
        /\ trace[q].ok
        /\ trace[q - 1].ev # "adjust"

\* The number of requests read and not yet answered.
InFlight == NumReads - Len(SelectSeq(trace, IsResponseEv))

\* C16: at most one request is in flight; stdin is read only when none is,
\* so what precedes a read is the response to the request before it (or the
\* end of the handshake); and a load, adjustment or transcription runs only
\* while exactly one request is in flight, the one read last.
C16_OneRequestInFlight ==
    /\ InFlight \in {0, 1}
    /\ InFlight = 1 <=> pc \in {"load", "adjust", "transcribe"}
    /\ \A p \in Pos :
          IsInput(trace[p]) =>
              /\ p > 1
              /\ \/ IsResponseEv(trace[p - 1])
                 \/ p = Len(Handshake) + 1
    /\ \A p \in Pos :
          trace[p].ev \in {"load", "adjust", "transcribe"} =>
              LET S == {r \in 1..p : IsRead(trace[r])}
              IN /\ S # {}
                 /\ \A q \in Pos :
                       (\A r \in S : r <= q) /\ q < p => ~IsResponseEv(trace[q])

C16_Witness ==
    /\ pc = "transcribe"
    /\ InFlight = 1
    /\ NumReads = 2
    /\ cur.model_name = PyStr(M1)
    /\ Cardinality(DOMAIN models) = 2

IsLoadingLine(l) == DOMAIN l = {"status", "model"} /\ l.status = "loading"

\* C17: every line written after the handshake is a 'loading' status, a
\* success object with exactly 'text' and 'confidence', or a failure object
\* with exactly 'error'; what follows a failed load, adjustment or
\* transcription is a failure object; and what follows a transcription that
\* returned is a success object whose confidence is the result's, or the
\* default 0.95 when the result carries none.
C17_ResponseShapes ==
    \A p \in Pos :
        /\ (IsWrite(trace[p]) /\ p > Len(Handshake)) =>
              \/ IsLoadingLine(trace[p].line)
              \/ IsSuccessLine(trace[p].line)
              \/ IsErrorLine(trace[p].line)
        /\ IsSuccessEv(trace[p]) =>
              /\ p > 1
              /\ trace[p - 1].ev = "transcribe"
              /\ trace[p - 1].ok
        /\ IsExternalFailure(trace[p]) =>
              /\ p + 1 <= Len(trace)
              /\ IsErrorEv(trace[p + 1])
        /\ (trace[p].ev = "transcribe" /\ trace[p].ok) =>
              /\ p + 1 <= Len(trace)
              /\ IsSuccessEv(trace[p + 1])
              /\ trace[p + 1].line.text = TextOf(trace[p].audio)
              /\ trace[p + 1].line.confidence =
                    IF trace[p].conf = NoConfidence
                    THEN DefaultConfidence
                    ELSE trace[p].conf

C17_Witness ==
    \E p, q \in Pos :
        /\ trace[p].ev = "transcribe" /\ trace[p].ok
        /\ trace[p].conf = NoConfidence
        /\ trace[p + 1].line.confidence = DefaultConfidence
        /\ trace[q].ev = "transcribe" /\ ~trace[q].ok
        /\ IsErrorEv(trace[q + 1])

HasPrefix(e, prefix) == IsErrorEv(e) /\ StartsWith(e.line.error, prefix)

\* C18: the error after a failed load, adjustment or transcription, and
\* after a model name that cannot be looked up, starts with "Transcription
\* failed: "; the error for a line that is not JSON starts with "Invalid
\* JSON: " and the error for an incomplete request is the fixed text,
\* neither with the "Transcription failed: " prefix; and that prefix is on
\* no other error line.
C18_ErrorCategories ==
    \A p \in Pos :
        /\ (IsExternalFailure(trace[p]) \/ IsReadOf(trace[p], UnhashableLines)) =>
              /\ p + 1 <= Len(trace)
              /\ HasPrefix(trace[p + 1], TranscriptionFailedPrefix)
              /\ ~HasPrefix(trace[p + 1], InvalidJSONPrefix)
              /\ trace[p + 1].line.error # MissingMsg
        /\ IsReadOf(trace[p], MalformedLines) =>
              /\ p + 1 <= Len(trace)
              /\ HasPrefix(trace[p + 1], InvalidJSONPrefix)
              /\ ~HasPrefix(trace[p + 1], TranscriptionFailedPrefix)
        /\ IsReadOf(trace[p], IncompleteLines) =>
              /\ p + 1 <= Len(trace)
              /\ IsErrorEv(trace[p + 1])
              /\ trace[p + 1].line.error = MissingMsg
              /\ ~HasPrefix(trace[p + 1], TranscriptionFailedPrefix)
              /\ ~HasPrefix(trace[p + 1], InvalidJSONPrefix)
        /\ HasPrefix(trace[p], TranscriptionFailedPrefix) =>
              /\ p > 1
              /\ \/ IsExternalFailure(trace[p - 1])
                 \/ IsReadOf(trace[p - 1], UnhashableLines)

C18_Witness ==
    \E p, q \in Pos :
        /\ trace[p].ev = "load" /\ ~trace[p].ok
        /\ HasPrefix(trace[p + 1], TranscriptionFailedPrefix)
        /\ trace[q].ev = "transcribe" /\ ~trace[q].ok
        /\ HasPrefix(trace[q + 1], TranscriptionFailedPrefix)

\* C19: a read that returned a line never ends the loop: the process exits
\* only on the empty read. A blank line and a line of JSON that is not an
\* object are each answered by the very next event, one error line, the
\* only thing done for them, and the loop reads again.
C19_OnlyEmptyReadCloses ==
    /\ pc = "exited" =>
          /\ trace[Len(trace)] = EofEv
          /\ Len(trace) > 1
          /\ ~IsRead(trace[Len(trace) - 1])
    /\ \A r \in Pos :
          IsReadOf(trace[r], {BlankLine} \cup NonObjectLines) =>
              /\ r + 1 <= Len(trace)
              /\ IsErrorEv(trace[r + 1])
              /\ IF r + 2 <= Len(trace)
                 THEN IsInput(trace[r + 2])
                 ELSE pc = "await" /\ exitCode = NotExited

C19_Witness ==
    \E r \in Pos :
        /\ IsReadOf(trace[r], {BlankLine})
        /\ r + 2 <= Len(trace)
        /\ IsReadOf(trace[r + 2], NonObjectLines)
        /\ pc = "await"

\* The number of events of the log that satisfy Test.
Count(Test(_)) == Cardinality({p \in Pos : Test(trace[p])})

\* C20: for every model name, the 'loading' lines written name one load
\* invocation each: their number is the number of load calls made, plus the
\* one about to be made; those calls are the failed attempts and at most one
\* success. A failed load has its 'loading' line just before it and an error
\* line just after it, and 'loading' is never followed by anything but the
\* load call.
C20_LoadingPerLoadInvocation ==
    \A name \in ModelNames :
        LET loading == Count(LAMBDA e : IsLoadingEv(e, name))
            ok == Count(LAMBDA e : IsLoadOf(e, name) /\ e.ok)
            failed == Count(LAMBDA e : IsLoadOf(e, name) /\ ~e.ok)
            pending == IF pc = "load" /\ cur.model_name = name THEN 1 ELSE 0
        IN  /\ loading = failed + ok + pending
            /\ ok <= 1
            /\ \A p \in Pos :
                  /\ (IsLoadOf(trace[p], name) /\ ~trace[p].ok) =>
                        /\ p > 1
                        /\ IsLoadingEv(trace[p - 1], name)
                        /\ p + 1 <= Len(trace)
                        /\ IsErrorEv(trace[p + 1])
                  /\ IsLoadingEv(trace[p], name) =>
                        IF p + 1 <= Len(trace)
                        THEN IsLoadOf(trace[p + 1], name)
                        ELSE pending = 1

C20_Witness ==
    \E name \in ModelNames :
        /\ Count(LAMBDA e : IsLoadingEv(e, name)) = 2
        /\ Count(LAMBDA e : IsLoadOf(e, name) /\ ~e.ok) = 2
        /\ IsErrorEv(trace[Len(trace)])

====
